---- MODULE Spec2Model ----
(***************************************************************************)
(* Rank-and-crowding survival (pymoo/operators/rank_and_crowding_survival)  *)
(* RankAndCrowdingSurvival._do and calc_crowding_distance.                  *)
(*                                                                          *)
(* Individuals are the indices 0..n-1 of the population; the row of         *)
(* individual i is F[i+1] (sequences are 1-based), and position j of a      *)
(* numpy array is position j+1 of the sequence that models it.  Ranks k are *)
(* 0-based as in enumerate(fronts): front k is fronts[k+1].                 *)
(*                                                                          *)
(* Objective values are integers; a float score is an exact rational, +inf  *)
(* or NaN: [t |-> "fin", n |-> numerator, d |-> denominator] in lowest      *)
(* terms, [t |-> "inf"] or [t |-> "nan"] (n = 0 and d = 1 for the last two).*)
(***************************************************************************)
EXTENDS Integers, Sequences, FiniteSets

\* ------------------------------------------------------------------ bounds
\* largest population given to _do
MaxN == 4
\* largest front given to calc_crowding_distance alone
MaxFront == 3
\* number of objectives of the populations given to _do
PopObj == 2
\* largest number of objectives of a front given to calc_crowding_distance alone
MaxObj == 3
\* objective values are 0..MaxVal
MaxVal == 2

\* ------------------------------------------------- extended real arithmetic
RECURSIVE GCD(_, _)
GCD(a, b) == IF b = 0 THEN a ELSE GCD(b, a % b)

Abs(x) == IF x < 0 THEN -x ELSE x

Inf == [t |-> "inf", n |-> 0, d |-> 1]

NaN == [t |-> "nan", n |-> 0, d |-> 1]

\* the rational a / b in lowest terms, b > 0
Rat(a, b) ==
    LET g == GCD(Abs(a), b)
    IN  [t |-> "fin", n |-> a \div g, d |-> b \div g]

Zero == Rat(0, 1)

\* x + y of two floats: NaN is absorbing, then +inf
Add(x, y) ==
    IF x.t = "nan" \/ y.t = "nan" THEN NaN
    ELSE IF x.t = "inf" \/ y.t = "inf" THEN Inf
    ELSE Rat(x.n * y.d + y.n * x.d, x.d * y.d)

\* x / norm where norm is a positive float or NaN (line 83)
Div(x, norm) ==
    IF x.t = "nan" \/ norm.t = "nan" THEN NaN
    ELSE IF x.t = "inf" THEN Inf
    ELSE Rat(x.n * norm.d, x.d * norm.n)

\* x <= y on floats; every comparison with NaN is false
Leq(x, y) ==
    IF x.t = "nan" \/ y.t = "nan" THEN FALSE
    ELSE IF y.t = "inf" THEN TRUE
    ELSE IF x.t = "inf" THEN FALSE
    ELSE x.n * y.d <= y.n * x.d

\* ------------------------------------------------------ find_duplicates
\* the array with the n entries f[1], ..., f[n]
RECURSIVE Array(_, _)
Array(f, n) == IF n = 0 THEN <<>> ELSE Append(Array(f, n - 1), f[n])

\* is_duplicate[j]: row j is within epsilon of an earlier row of the matrix
\* (all but the first row of each group of identical rows)
find_duplicates(X) ==
    Array([j \in 1..Len(X) |-> \E i \in 1..(j - 1) : X[i] = X[j]], Len(X))

\* ---------------------------------------------------- calc_crowding_distance
\* filter_out_duplicates=False: is_unique = np.arange(n_points) (line 63)
is_uniqueUnfiltered(X) == Array([j \in 1..Len(X) |-> j], Len(X))

\* positions of the rows that are not duplicates, ascending (np.where, line 60)
is_unique(X) ==
    LET dup == find_duplicates(X)
        RECURSIVE Collect(_)
        Collect(j) ==
            IF j = 0 THEN <<>>
            ELSE IF dup[j] THEN Collect(j - 1) ELSE Append(Collect(j - 1), j)
    IN  Collect(Len(X))

\* _F = F[is_unique] (line 66)
UniqueRows(X) ==
    LET u == is_unique(X) IN Array([a \in 1..Len(u) |-> X[u[a]]], Len(u))

\* np.argsort(col, kind='mergesort'): the stable sort permutation of one
\* column, built by inserting each index after every index whose value is <=
ArgsortColumn(col) ==
    LET RECURSIVE Insert(_, _)
        Insert(s, x) ==
            IF s = <<>> THEN <<x>>
            ELSE IF col[s[Len(s)]] <= col[x] THEN Append(s, x)
            ELSE Append(Insert(SubSeq(s, 1, Len(s) - 1), x), s[Len(s)])
        RECURSIVE Sort(_)
        Sort(a) == IF a = 0 THEN <<>> ELSE Insert(Sort(a - 1), a)
    IN  Sort(Len(col))

\* I = np.argsort(_F, axis=0, kind='mergesort'): I[c][p] is the row at sorted
\* position p of column c (line 69)
ArgsortRows(U, n_obj) ==
    Array([c \in 1..n_obj |-> ArgsortColumn(Array([a \in 1..Len(U) |-> U[a][c]], Len(U)))],
          n_obj)

\* _F[I, np.arange(n_obj)]: S[c][p] is the p-th smallest value of column c (line 72)
SortedColumns(U, I) ==
    Array([c \in 1..Len(I) |-> Array([p \in 1..Len(U) |-> U[I[c][p]][c]], Len(U))], Len(I))

\* dist = row_stack([_F, +inf]) - row_stack([-inf, _F]): one row more than S (line 75)
Dist(S) ==
    Array([c \in 1..Len(S) |->
              Array([p \in 1..(Len(S[c]) + 1) |->
                        IF p = 1 \/ p = Len(S[c]) + 1 THEN Inf
                        ELSE Rat(S[c][p] - S[c][p - 1], 1)], Len(S[c]) + 1)], Len(S))

\* norm = max - min of every column, NaN where it is 0 (lines 78-79)
Norm(S) ==
    LET vals(c) == {S[c][p] : p \in 1..Len(S[c])}
        mx(c) == CHOOSE v \in vals(c) : \A w \in vals(c) : w <= v
        mn(c) == CHOOSE v \in vals(c) : \A w \in vals(c) : v <= w
    IN  Array([c \in 1..Len(S) |->
                  IF mx(c) - mn(c) = 0 THEN NaN ELSE Rat(mx(c) - mn(c), 1)], Len(S))

\* x[np.isnan(x)] = 0.0 (lines 86-87)
NanToZeroKept(x) == x

NanToZero(x) == IF x.t = "nan" THEN Zero ELSE x

\* dist_to_last = dist[:-1] / norm with NaN replaced by 0 (lines 82-86)
dist_to_last(dist, norm) ==
    Array([c \in 1..Len(dist) |->
              Array([p \in 1..(Len(dist[c]) - 1) |-> NanToZero(Div(dist[c][p], norm[c]))],
                    Len(dist[c]) - 1)], Len(dist))

\* dist_to_next = dist[1:] / norm with NaN replaced by 0 (lines 82-87)
dist_to_next_unshifted(dist, norm) ==
    Array([c \in 1..Len(dist) |->
              Array([p \in 1..(Len(dist[c]) - 1) |-> NanToZero(Div(dist[c][p], norm[c]))],
                    Len(dist[c]) - 1)], Len(dist))

dist_to_next(dist, norm) ==
    Array([c \in 1..Len(dist) |->
              Array([p \in 1..(Len(dist[c]) - 1) |-> NanToZero(Div(dist[c][p + 1], norm[c]))],
                    Len(dist[c]) - 1)], Len(dist))

\* J = np.argsort(I, axis=0): J[c][a] is the sorted position of row a in
\* column c, the inverse of the permutation I[c] (line 90)
InversePermutationForgotten(I) == I

InversePermutation(I) == Array([c \in 1..Len(I) |-> ArgsortColumn(I[c])], Len(I))

\* dist_to_last[J, arange] + dist_to_next[J, arange]: the summand of line 91,
\* what column c adds to the score of unique row a
Summand(U, n_obj) ==
    LET I == ArgsortRows(U, n_obj)
        S == SortedColumns(U, I)
        dist == Dist(S)
        norm == Norm(S)
        dl == dist_to_last(dist, norm)
        dn == dist_to_next(dist, norm)
        J == InversePermutation(I)
    IN  Array([a \in 1..Len(U) |->
                  Array([c \in 1..n_obj |-> Add(dl[c][J[c][a]], dn[c][J[c][a]])], n_obj)],
              Len(U))

\* _cd = np.sum(..., axis=1) / n_obj (line 91)
SumOverObjectives(summand, n_obj) ==
    LET RECURSIVE Sum(_, _)
        Sum(a, c) == IF c = 0 THEN Zero ELSE Add(Sum(a, c - 1), summand[a][c])
    IN  Array([a \in 1..Len(summand) |-> Div(Sum(a, n_obj), Rat(n_obj, 1))], Len(summand))

\* n_points <= 2 (line 53)
FewPointsOffByOne(n_points) == n_points < 2

FewPoints(n_points) == n_points <= 2

\* crowding = np.zeros(n_points); crowding[is_unique] = _cd (lines 94-95)
Scatter(X, _cd) ==
    LET u == is_unique(X)
    IN  Array([j \in 1..Len(X) |->
                  IF \E a \in 1..Len(u) : u[a] = j
                  THEN _cd[CHOOSE a \in 1..Len(u) : u[a] = j]
                  ELSE Zero], Len(X))

\* calc_crowding_distance(F) with filter_out_duplicates=True (lines 50-98)
calc_crowding_distance(X) ==
    LET n_points == Len(X)
        n_obj == Len(X[1])
    IN  IF FewPoints(n_points) THEN Array([j \in 1..n_points |-> Inf], n_points)
        ELSE Scatter(X, SumOverObjectives(Summand(UniqueRows(X), n_obj), n_obj))

\* ------------------------------------------------------------ the sorter
\* a dominates b: no worse in every objective, better in one (minimization)
Dominates(a, b) ==
    /\ \A c \in 1..Len(a) : a[c] <= b[c]
    /\ \E c \in 1..Len(a) : a[c] < b[c]

\* the Pareto layers of the individuals 0..n-1, as a sequence of index sets
RECURSIVE Layers(_, _)
Layers(X, rest) ==
    IF rest = {} THEN <<>>
    ELSE LET top == {i \in rest : ~\E j \in rest : Dominates(X[j + 1], X[i + 1])}
         IN  <<top>> \o Layers(X, rest \ top)

\* the sequences that list every member of the set S once
Orderings(S) ==
    {s \in [1..Cardinality(S) -> S] : \A a, b \in 1..Cardinality(S) : s[a] = s[b] => a = b}

\* sum of the sizes of the first nf fronts
RECURSIVE CumulativeSize(_, _)
CumulativeSize(fs, nf) ==
    IF nf = 0 THEN 0 ELSE CumulativeSize(fs, nf - 1) + Len(fs[nf])

\* self.nds.do(F, n_stop_if_ranked=n_survive): the layers in order, each in
\* some order of its members, up to a front at which the cumulative size
\* reaches n_stop_if_ranked, or further
NonDominatedSorting(X, n_stop_if_ranked) ==
    LET L == Layers(X, 0..(Len(X) - 1))
        RECURSIVE Arranged(_)
        Arranged(a) ==
            IF a = 0 THEN {<<>>}
            ELSE {Append(p, o) : p \in Arranged(a - 1), o \in Orderings(L[a])}
    IN  UNION {{SubSeq(fs, 1, nf) : nf \in {x \in 1..Len(L) :
                                            \/ x = Len(L)
                                            \/ CumulativeSize(fs, x) >= n_stop_if_ranked}}
               : fs \in Arranged(Len(L))}

\* ------------------------------------------------------ randomized_argsort
\* the orders in which randomized_argsort(A, order=...) can list the
\* positions of A: sorted by A, ties in any order
randomized_argsort(A, order) ==
    {I \in Orderings(1..Len(A)) :
        \A a \in 1..(Len(A) - 1) :
            IF order = "descending" THEN Leq(A[I[a + 1]], A[I[a]])
            ELSE Leq(A[I[a]], A[I[a + 1]])}

\* ------------------------------------------------ RankAndCrowdingSurvival._do
VARIABLES F, n_survive, fronts, k, survivors, rank, crowding, nset, log, pc,
          Ff, cd, P, cdP, cpc

vars == <<F, n_survive, fronts, k, survivors, rank, crowding, nset, log, pc,
          Ff, cd, P, cdP, cpc>>

doVars == <<F, n_survive, fronts, k, survivors, rank, crowding, nset, log, pc>>

cdVars == <<Ff, cd, P, cdP, cpc>>

\* a value no pop[i].set has written yet
Unset == [t |-> "unset", n |-> 0, d |-> 1]

Matrices(n, m) == [1..n -> [1..m -> 0..MaxVal]]

\* F[front, :] (line 29)
RowsOf(X, front) == [j \in 1..Len(front) |-> X[front[j] + 1]]

\* len(survivors) + len(front) > n_survive (line 37)
IsSplittingAtBudget(surv, front, n) == Len(surv) + Len(front) >= n

IsSplitting(surv, front, n) == Len(surv) + Len(front) > n

\* randomized_argsort(crowding_of_front, order='descending', method='numpy') (line 38)
SplitOrderAscending(crowding_of_front) == randomized_argsort(crowding_of_front, "ascending")

SplitOrder(crowding_of_front) == randomized_argsort(crowding_of_front, "descending")

\* I[:stop], a Python slice: a negative stop counts from the end
Slice(I, stop) ==
    LET last == IF stop < 0 THEN Len(I) + stop ELSE stop
    IN  SubSeq(I, 1, IF last < Len(I) THEN last ELSE Len(I))

\* I[:(n_survive - len(survivors))] (line 39)
TruncateOneMore(I, surv, n) == Slice(I, n - Len(surv) + 1)

Truncate(I, surv, n) == Slice(I, n - Len(surv))

\* np.arange(len(front)) (line 43)
Arange(front) == [j \in 1..Len(front) |-> j]

\* front[I] (line 46)
Take(front, I) == [a \in 1..Len(I) |-> front[I[a]]]

\* pop[i].set("rank", k) for the members of the front (lines 32-33)
SetRankOfNextFront(rk, front, kk) ==
    [i \in DOMAIN rk |-> IF \E j \in 1..Len(front) : front[j] = i THEN kk + 1 ELSE rk[i]]

SetRank(rk, front, kk) ==
    [i \in DOMAIN rk |-> IF \E j \in 1..Len(front) : front[j] = i THEN kk ELSE rk[i]]

\* pop[i].set("crowding", crowding_of_front[j]) (lines 32-34)
SetCrowding(cr, front, crowding_of_front) ==
    [i \in DOMAIN cr |->
        IF \E j \in 1..Len(front) : front[j] = i
        THEN crowding_of_front[CHOOSE j \in 1..Len(front) : front[j] = i]
        ELSE cr[i]]

\* how many times each key of each individual has been set (lines 33-34)
CountSets(ns, front) ==
    [i \in DOMAIN ns |->
        LET times == Cardinality({j \in 1..Len(front) : front[j] = i})
        IN  [rank |-> ns[i].rank + times, crowding |-> ns[i].crowding + times]]

\* state after lines 15-24: survivors = [], fronts from the sorter
InitDo ==
    /\ \E n \in 1..MaxN, m \in 1..PopObj : F \in Matrices(n, m)
    /\ n_survive \in 1..MaxN
    /\ fronts \in NonDominatedSorting(F, n_survive)
    /\ k = 0
    /\ survivors = <<>>
    /\ rank = [i \in 0..(Len(F) - 1) |-> -1]
    /\ crowding = [i \in 0..(Len(F) - 1) |-> Unset]
    /\ nset = [i \in 0..(Len(F) - 1) |-> [rank |-> 0, crowding |-> 0]]
    /\ log = <<>>
    /\ pc = "loop"

IdleCD == Ff = <<>> /\ cd = <<>> /\ P = <<>> /\ cdP = <<>> /\ cpc = "idle"

Init == InitDo /\ IdleCD

\* lines 26-34 and 46 of one iteration, for the selection I of line 38-39 or 43
Iteration(I, split) ==
    LET front == fronts[k + 1]
        crowding_of_front == calc_crowding_distance(RowsOf(F, front))
    IN  /\ rank' = SetRank(rank, front, k)
        /\ crowding' = SetCrowding(crowding, front, crowding_of_front)
        /\ nset' = CountSets(nset, front)
        /\ survivors' = survivors \o Take(front, I)
        /\ log' = Append(log, [split |-> split, before |-> Len(survivors), I |-> I,
                               scores |-> crowding_of_front])
        /\ k' = k + 1
        /\ UNCHANGED <<F, n_survive, fronts, pc>>

\* one iteration of the loop that takes the branch of lines 37-39
SplitFront ==
    /\ pc = "loop"
    /\ k < Len(fronts)
    /\ IsSplitting(survivors, fronts[k + 1], n_survive)
    /\ \E I \in SplitOrder(calc_crowding_distance(RowsOf(F, fronts[k + 1]))) :
           Iteration(Truncate(I, survivors, n_survive), TRUE)
    /\ UNCHANGED cdVars

\* one iteration of the loop that takes the branch of lines 42-43
WholeFront ==
    /\ pc = "loop"
    /\ k < Len(fronts)
    /\ ~IsSplitting(survivors, fronts[k + 1], n_survive)
    /\ Iteration(Arange(fronts[k + 1]), FALSE)
    /\ UNCHANGED cdVars

\* line 48, after the last front
Return ==
    /\ pc = "loop"
    /\ k = Len(fronts)
    /\ pc' = "done"
    /\ UNCHANGED <<F, n_survive, fronts, k, survivors, rank, crowding, nset, log>>
    /\ UNCHANGED cdVars

Next == SplitFront \/ WholeFront \/ Return

Spec == Init /\ [][Next]_vars


\* ----------------------------------- calc_crowding_distance on its own
\* the front of the scenario of five mutually non-dominated rows
ScenarioF == <<<<1, 5>>, <<2, 4>>, <<3, 3>>, <<4, 2>>, <<5, 1>>>>

\* the rows of a front do not dominate one another
IsFront(X) == \A a, b \in 1..Len(X) : ~Dominates(X[a], X[b])

FrontInputs ==
    UNION {{X \in Matrices(n, m) : IsFront(X)} : n \in 1..MaxFront, m \in 1..MaxObj}

\* X[P, :]
Permuted(X, perm) == [j \in 1..Len(X) |-> X[perm[j]]]

IdleDo ==
    /\ F = <<>> /\ n_survive = 0 /\ fronts = <<>> /\ k = 0 /\ survivors = <<>>
    /\ rank = <<>> /\ crowding = <<>> /\ nset = <<>> /\ log = <<>> /\ pc = "idle"

InitCD ==
    /\ IdleDo
    /\ Ff \in FrontInputs \cup {ScenarioF}
    /\ cd = <<>>
    /\ P = <<>>
    /\ cdP = <<>>
    /\ cpc = "start"

\* crowding_of_front = calc_crowding_distance(F[front, :])
Estimate ==
    /\ cpc = "start"
    /\ cd' = calc_crowding_distance(Ff)
    /\ cpc' = "scored"
    /\ UNCHANGED <<Ff, P, cdP>>
    /\ UNCHANGED doVars

\* the same call on the rows of the front in another order
EstimatePermuted ==
    /\ cpc = "scored"
    /\ \E perm \in Orderings(1..Len(Ff)) :
           /\ P' = perm
           /\ cdP' = calc_crowding_distance(Permuted(Ff, perm))
    /\ cpc' = "permuted"
    /\ UNCHANGED <<Ff, cd>>
    /\ UNCHANGED doVars

NextCD == Estimate \/ EstimatePermuted

SpecCD == InitCD /\ [][NextCD]_vars


\* ====================================================================
\* Properties of RankAndCrowdingSurvival._do (specification Spec)
\* ====================================================================
SetOf(s) == {s[a] : a \in 1..Len(s)}

Smaller(a, b) == IF a < b THEN a ELSE b

\* what the loop has appended so far according to the log: front[I] of every
\* processed front, in front order
RECURSIVE Appended(_)
Appended(a) == IF a = 0 THEN <<>> ELSE Appended(a - 1) \o Take(fronts[a], log[a].I)

\* C1: _do returns exactly min(n_survive, n) pairwise distinct indices, also
\* when the sorter returned fronts beyond the splitting front, and after each
\* processed front the survivor list holds at most n_survive indices.
C1_SurvivorCount ==
    /\ Len(survivors) <= n_survive
    /\ pc = "done" =>
          /\ Len(survivors) = Smaller(n_survive, Len(F))
          /\ SetOf(survivors) \subseteq 0..(Len(F) - 1)
          /\ \A a, b \in 1..Len(survivors) : survivors[a] = survivors[b] => a = b

\* _do has returned after truncating a front that was not the last one the
\* sorter returned
C1_Witness ==
    /\ pc = "done"
    /\ n_survive < Len(F)
    /\ \E a \in 1..(Len(log) - 1) : log[a].split /\ Len(log[a].I) > 0

\* C2: a splitting front contributes exactly n_survive - len(survivors)
\* members, and each of them has a crowding score >= that of every member of
\* the front that is left out, whatever order the tie-break produced.
C2_Truncation ==
    \A a \in 1..Len(log) :
        log[a].split =>
            LET front == fronts[a]
                I == log[a].I
                chosen == SetOf(I)
            IN  /\ Len(I) = n_survive - log[a].before
                /\ chosen \subseteq 1..Len(front)
                /\ Cardinality(chosen) = Len(I)
                /\ SubSeq(survivors, log[a].before + 1, log[a].before + Len(I))
                       = Take(front, I)
                /\ \A j \in chosen : \A o \in (1..Len(front)) \ chosen :
                       Leq(crowding[front[o]], crowding[front[j]])

\* a front of unequal scores was truncated to a proper, non-empty part
C2_Witness ==
    \E a \in 1..Len(log) :
        /\ log[a].split
        /\ 0 < Len(log[a].I)
        /\ Len(log[a].I) < Len(fronts[a])
        /\ \E j, o \in 1..Len(fronts[a]) : ~Leq(log[a].scores[j], log[a].scores[o])

\* a front whose scores are all +inf was truncated to a proper, non-empty part
C2_WitnessAllInfinite ==
    \E a \in 1..Len(log) :
        /\ log[a].split
        /\ 0 < Len(log[a].I)
        /\ Len(log[a].I) < Len(fronts[a])
        /\ \A j \in 1..Len(fronts[a]) : log[a].scores[j] = Inf

\* C3: a front that fits in the remaining budget (also exactly) is appended
\* whole, in front order, without the tie-break; the survivors are the fronts
\* in order followed by the selected part of the splitting front; no member of
\* a later front survives while a member of an earlier one is dropped; with
\* n_survive >= n the tie-break is never taken and everybody survives.
C3_WholeFronts ==
    /\ \A a \in 1..Len(log) :
          /\ log[a].split <=> (log[a].before + Len(fronts[a]) > n_survive)
          /\ ~log[a].split =>
                /\ log[a].I = Arange(fronts[a])
                /\ SubSeq(survivors, log[a].before + 1, log[a].before + Len(fronts[a]))
                       = fronts[a]
    /\ survivors = Appended(Len(log))
    /\ \A a, b \in 1..Len(log) :
          (a < b /\ SetOf(fronts[b]) \cap SetOf(survivors) # {})
              => SetOf(fronts[a]) \subseteq SetOf(survivors)
    /\ (pc # "idle" /\ n_survive >= Len(F)) =>
          /\ \A a \in 1..Len(log) : ~log[a].split
          /\ pc = "done" => SetOf(survivors) = 0..(Len(F) - 1)

\* a second front filled the remaining budget exactly and was appended whole
C3_Witness ==
    /\ pc = "done"
    /\ n_survive < Len(F)
    /\ \E a \in 2..Len(log) :
          /\ ~log[a].split
          /\ log[a].before + Len(fronts[a]) = n_survive

\* C4: at return every member of every visited front k has rank k and the
\* estimator's score within that front, survivors included, and every
\* individual's rank and crowding were set exactly once (never, for an
\* individual of no visited front).
C4_Metadata ==
    pc = "done" =>
        /\ \A a \in 1..Len(fronts) : \A j \in 1..Len(fronts[a]) :
              LET i == fronts[a][j]
              IN  /\ rank[i] = a - 1
                  /\ crowding[i] = calc_crowding_distance(RowsOf(F, fronts[a]))[j]
                  /\ nset[i] = [rank |-> 1, crowding |-> 1]
        /\ \A i \in SetOf(survivors) : rank[i] # -1 /\ crowding[i] # Unset
        /\ \A i \in 0..(Len(F) - 1) :
              (\A a \in 1..Len(fronts) : i \notin SetOf(fronts[a]))
                  => nset[i] = [rank |-> 0, crowding |-> 0] /\ rank[i] = -1

\* _do has returned and a member of the splitting front that did not survive
\* carries its rank and a finite crowding score
C4_Witness ==
    /\ pc = "done"
    /\ \E a \in 1..Len(log) :
          /\ log[a].split
          /\ \E j \in 1..Len(fronts[a]) :
                /\ fronts[a][j] \notin SetOf(survivors)
                /\ rank[fronts[a][j]] = a - 1
                /\ crowding[fronts[a][j]].t = "fin"

\* C9: once the splitting front has been handled, no later front of the
\* sorter's result is processed: no crowding distance, no rank or crowding
\* written, no tie-break.
C9_StopsAfterSplittingFront ==
    \A a \in 1..Len(log) :
        log[a].split =>
            /\ Len(log) = a
            /\ \A b \in (a + 1)..Len(fronts) : \A i \in SetOf(fronts[b]) :
                  rank[i] = -1 /\ nset[i] = [rank |-> 0, crowding |-> 0]


\* ====================================================================
\* Properties of calc_crowding_distance (specification SpecCD)
\* ====================================================================
Scored == cpc \in {"scored", "permuted"}

NoDuplicateRows(X) == \A a, b \in 1..Len(X) : X[a] = X[b] => a = b

\* no two rows have the same value in any column
NoSharedValues(X) ==
    \A a, b \in 1..Len(X) : a # b => \A c \in 1..Len(X[1]) : X[a][c] # X[b][c]

ColumnValues(X, c) == {X[a][c] : a \in 1..Len(X)}

Largest(S) == CHOOSE v \in S : \A w \in S : w <= v

Smallest(S) == CHOOSE v \in S : \A w \in S : v <= w

ColumnRange(X, c) == Largest(ColumnValues(X, c)) - Smallest(ColumnValues(X, c))

\* row b comes before row a when column c is sorted stably
Before(X, c, b, a) == X[b][c] < X[a][c] \/ (X[b][c] = X[a][c] /\ b < a)

\* gap of row a to its next-lower neighbour in column c, +inf if it has none
LowerGap(X, a, c) ==
    LET lower == {X[b][c] : b \in {x \in 1..Len(X) : Before(X, c, x, a)}}
    IN  IF lower = {} THEN Inf ELSE Rat(X[a][c] - Largest(lower), 1)

\* gap of row a to its next-higher neighbour in column c, +inf if it has none
UpperGap(X, a, c) ==
    LET upper == {X[b][c] : b \in {x \in 1..Len(X) : Before(X, c, a, x)}}
    IN  IF upper = {} THEN Inf ELSE Rat(Smallest(upper) - X[a][c], 1)

\* the two gaps over the range of the column; nothing for a constant column
ColumnShare(X, a, c) ==
    IF ColumnRange(X, c) = 0 THEN Zero
    ELSE Div(Add(LowerGap(X, a, c), UpperGap(X, a, c)), Rat(ColumnRange(X, c), 1))

RECURSIVE SumOfShares(_, _, _)
SumOfShares(X, a, c) ==
    IF c = 0 THEN Zero ELSE Add(SumOfShares(X, a, c - 1), ColumnShare(X, a, c))

\* the per-row definition of the crowding distance
ExpectedScore(X, a) == Div(SumOfShares(X, a, Len(X[1])), Rat(Len(X[1]), 1))

ScenarioScores == <<Inf, Rat(1, 2), Rat(1, 2), Rat(1, 2), Inf>>

C6_ExtremeValueInfinite ==
    (Scored /\ Len(Ff) > 2 /\ NoDuplicateRows(Ff)) =>
        /\ \A a \in 1..Len(Ff) : cd[a] = ExpectedScore(Ff, a)
        /\ \A a \in 1..Len(Ff) : \A c \in 1..Len(Ff[1]) :
              (/\ ColumnRange(Ff, c) > 0
               /\ Ff[a][c] \in {Smallest(ColumnValues(Ff, c)), Largest(ColumnValues(Ff, c))})
                  => cd[a] = Inf
        /\ Ff = ScenarioF => cd = ScenarioScores

\* C6 as amended: the same sum, the neighbours being those of the stable sort
\* of the column and a constant column adding 0; a row that is the ONLY row
\* holding the minimum or the maximum of a non-constant column (the first or
\* last sorted position) scores +inf, a row that merely ties for it need not.
C6_StrictExtremeInfinite ==
    (Scored /\ Len(Ff) > 2 /\ NoDuplicateRows(Ff)) =>
        /\ Len(cd) = Len(Ff)
        /\ \A a \in 1..Len(Ff) : cd[a] = ExpectedScore(Ff, a)
        /\ \A a \in 1..Len(Ff) : \A c \in 1..Len(Ff[1]) :
              (/\ ColumnRange(Ff, c) > 0
               /\ Ff[a][c] \in {Smallest(ColumnValues(Ff, c)), Largest(ColumnValues(Ff, c))}
               /\ \A b \in 1..Len(Ff) : Ff[b][c] = Ff[a][c] => b = a)
                  => cd[a] = Inf
        /\ Ff = ScenarioF => cd = ScenarioScores

\* the scenario front has been scored
C6_Witness == Scored /\ Ff = ScenarioF /\ cd[3] = Rat(1, 2)

\* C7: a front of 1 or 2 rows, identical rows included, gets a vector of
\* its own length whose entries are all +inf.
C7_FewRowsInfinite ==
    (Scored /\ Len(Ff) <= 2) =>
        /\ Len(cd) = Len(Ff)
        /\ \A j \in 1..Len(Ff) : cd[j] = Inf

\* a front of two identical rows has been scored
C7_Witness == Scored /\ Len(Ff) = 2 /\ Ff[1] = Ff[2] /\ Len(cd) = 2

\* C8: every score is a real >= 0 or +inf, never negative and never NaN, and
\* a column that is constant over the unique rows adds exactly 0 to the score
\* of every row, the rows at its first and last sorted position included.
C8_NonNegative ==
    Scored =>
        /\ \A j \in 1..Len(Ff) :
              \/ cd[j] = Inf
              \/ cd[j].t = "fin" /\ cd[j].n >= 0 /\ cd[j].d > 0
        /\ Len(Ff) > 2 =>
              LET U == UniqueRows(Ff)
                  summand == Summand(U, Len(Ff[1]))
              IN  \A c \in 1..Len(Ff[1]) :
                      ColumnRange(U, c) = 0 => \A a \in 1..Len(U) : summand[a][c] = Zero

\* a front of more than 2 rows with several unique rows and a constant
\* column has been scored
C8_Witness ==
    /\ Scored
    /\ Len(Ff) > 2
    /\ Len(UniqueRows(Ff)) > 1
    /\ \E c \in 1..Len(Ff[1]) : ColumnRange(Ff, c) = 0
    /\ \E j \in 1..Len(Ff) : cd[j] = Inf

\* C10 as stated: for k > 2 pairwise non-duplicate rows (rows may share a
\* value in a column) the scores of a permuted front are the permuted scores.
C10_OrderIndependent ==
    (cpc = "permuted" /\ Len(Ff) > 2 /\ NoDuplicateRows(Ff)) =>
        \A j \in 1..Len(Ff) : cdP[j] = cd[P[j]]

\* C10 as amended: the same for fronts of k > 2 rows of which no two share a
\* value in any column.
C10_OrderIndependentWithoutTies ==
    (cpc = "permuted" /\ Len(Ff) > 2 /\ NoSharedValues(Ff)) =>
        /\ Len(cdP) = Len(Ff)
        /\ \A j \in 1..Len(Ff) : cdP[j] = cd[P[j]]

\* a front without shared values has been scored in an order that moves every
\* row, and one of its scores is finite
C10_Witness ==
    /\ cpc = "permuted"
    /\ Len(Ff) > 2
    /\ NoSharedValues(Ff)
    /\ \A j \in 1..Len(Ff) : P[j] # j
    /\ \E j \in 1..Len(Ff) : cd[j].t = "fin"

====
